---- MODULE Spec2Model ----
(***************************************************************************)
(* rez-cook: the PackageList merge algebra (package_list.py), the Recipe   *)
(* conflict predicates (recipe.py) and the dependency resolver with its    *)
(* driver (rez-cook.py).                                                   *)
(*                                                                         *)
(* A version range is the set of versions it admits.  The versions are    *)
(* the numbered ones of the finite domain Versions and the version named   *)
(* "None", which only PackageList.constrained can bring in; the range      *)
(* "any" admits them all, and the None that rez returns for "no            *)
(* intersection" is the empty set.  A                                      *)
(* PackageRequest is a record [name, range], a PackageList is the sequence *)
(* of its requests (_pkgs), a Python dict is a sequence of entries in      *)
(* insertion order.  A raised exception is a result record whose err field *)
(* names the raise site.  Requests are plain ones: rez's conflict ("!x")   *)
(* and weak ("~x") requests are outside the model.                         *)
(***************************************************************************)
EXTENDS Integers, Sequences, FiniteSets

\* ------------------------------------------------------------------ bounds

\* Versions are 0..MaxVer.
MaxVer == 2

Versions == 0 .. MaxVer

\* The version named "None": the text f"{None}" of line 107 of
\* package_list.py read as a version.  rez orders a token of letters before
\* every number, so it lies below version 0.
NoneVersion == -1

\* VersionRange(""): every version.
AnyRange == NoneVersion .. MaxVer

\* The sets of numbered versions a family can come in.
VersionSets == { lo .. hi : lo \in Versions, hi \in Versions }

\* The ranges drawn as inputs: one version ("v"), the versions from one on
\* ("v+"), the versions below one ("<v", which admits the version named
\* None too), "lo+<hi", and any.  They are closed under intersection.
Ranges ==
  { (IF lo = 0 /\ hi > 0 THEN NoneVersion ELSE lo) .. hi :
      lo \in Versions, hi \in Versions } \ { {} }

\* VersionRange.is_any()
is_any(range) == range = AnyRange

\* VersionRange.intersects(other)
intersects(r1, r2) == r1 \cap r2 # {}

\* PackageRequest(f"{name}-{range}"): the text is split at the first "-"
\* into the family name and the range expression, which is parsed.
PackageRequest(name, range) == [name |-> name, range |-> range]

\* PackageRequest.conflicts_with(other), for plain requests: the same
\* family and no common version.
conflicts_with(p, r) == p.name = r.name /\ ~intersects(p.range, r.range)

\* PackageRequest.merged(other) for two requests of one family: the range is
\* self.range & other.range; the empty range stands for the None it returns.
merged_range(p, r) == p.range \cap r.range

\* ------------------------------------------------------- Python dict / list

Names(pkgs) == { pkgs[i].name : i \in DOMAIN pkgs }

UniqueNames(pkgs) ==
  \A i, j \in DOMAIN pkgs : pkgs[i].name = pkgs[j].name => i = j

\* d[name] = p: an existing key keeps its place and takes the new value, a
\* new key is appended.
DictSet(d, p) ==
  IF p.name \in Names(d)
    THEN [i \in DOMAIN d |-> IF d[i].name = p.name THEN p ELSE d[i]]
    ELSE Append(d, p)

\* d[name]
DictGet(d, name) == LET i == CHOOSE i \in DOMAIN d : d[i].name = name IN d[i]

RECURSIVE DictZipFrom(_, _, _)
DictZipFrom(d, pkgs, i) ==
  IF i > Len(pkgs) THEN d ELSE DictZipFrom(DictSet(d, pkgs[i]), pkgs, i + 1)

\* dict(zip([p.name for p in pkgs], pkgs))
DictZip(pkgs) == DictZipFrom(<<>>, pkgs, 1)

\* ------------------------------------------------------------ PackageList

Ok(pkgs) == [err |-> "none", pkgs |-> pkgs]

\* raise VersionConflict(...)
RaiseVersionConflict == [err |-> "VersionConflict", pkgs |-> <<>>]

\* A mutant of has_conflicts_with: the family names of the two requests are
\* not compared.
has_conflicts_with_any_name(self, rhs) ==
  \E i \in DOMAIN self : \E j \in DOMAIN rhs : ~intersects(self[i].range, rhs[j].range)

\* PackageList.has_conflicts_with
has_conflicts_with(self, rhs) ==
  \E i \in DOMAIN self : \E j \in DOMAIN rhs : conflicts_with(self[i], rhs[j])

\* PackageList.conflicts_with (one request)
list_conflicts_with(self, r) ==
  \E i \in DOMAIN self : conflicts_with(self[i], r)

RECURSIVE additive_merged_loop(_, _, _)
additive_merged_loop(d, rhs, i) ==
  IF i > Len(rhs) THEN Ok(d)
  ELSE LET p == rhs[i] IN
    IF p.name \in Names(d)
      THEN LET m == merged_range(p, DictGet(d, p.name)) IN
        IF m = {} THEN RaiseVersionConflict
        ELSE additive_merged_loop(DictSet(d, PackageRequest(p.name, m)), rhs, i + 1)
      ELSE additive_merged_loop(DictSet(d, p), rhs, i + 1)

\* A mutant of additive_merged: the requests of rhs that self does not name
\* are dropped.
additive_merged_dropping(self, rhs) ==
  additive_merged_loop(DictZip(self),
                       SelectSeq(rhs, LAMBDA p : p.name \in Names(self)), 1)

\* PackageList.additive_merged
additive_merged(self, rhs) == additive_merged_loop(DictZip(self), rhs, 1)

RECURSIVE merged_loop(_, _, _, _)
RECURSIVE merged_into_loop(_, _, _, _)
merged_loop(d, rhs, i, result) ==
  IF i > Len(rhs) THEN Ok(result)
  ELSE LET p == rhs[i] IN
    IF p.name \in Names(d)
      THEN LET m == merged_range(p, DictGet(d, p.name)) IN
        IF m = {} THEN RaiseVersionConflict
        ELSE merged_loop(d, rhs, i + 1, Append(result, PackageRequest(p.name, m)))
      ELSE merged_loop(d, rhs, i + 1, result)

\* A mutant of merged: every request of rhs is kept, also one that self does
\* not name (what rhs.merged_into(self) does).
merged_keeping(self, rhs) == merged_into_loop(DictZip(self), rhs, 1, <<>>)

\* PackageList.merged
merged(self, rhs) == merged_loop(DictZip(self), rhs, 1, <<>>)

merged_into_loop(d, self, i, result) ==
  IF i > Len(self) THEN Ok(result)
  ELSE LET p == self[i] IN
    IF p.name \in Names(d)
      THEN LET m == merged_range(p, DictGet(d, p.name)) IN
        IF m = {} THEN RaiseVersionConflict
        ELSE merged_into_loop(d, self, i + 1, Append(result, PackageRequest(p.name, m)))
      ELSE merged_into_loop(d, self, i + 1, Append(result, p))

\* A mutant of merged_into: the requests of self that rhs does not name are
\* dropped (what merged does).
merged_into_dropping(self, rhs) ==
  merged_into_loop(DictZip(rhs),
                   SelectSeq(self, LAMBDA p : p.name \in Names(rhs)), 1, <<>>)

\* PackageList.merged_into
merged_into(self, rhs) == merged_into_loop(DictZip(rhs), self, 1, <<>>)

\* PackageList.constrained: the range of the entry named like rhs is
\* intersected.  An empty intersection does not raise: intersection returns
\* None and the request is built from the text "name-None", a request for
\* the version named None.
constrained(self, rhs) ==
  [i \in DOMAIN self |->
     IF rhs.name = self[i].name
       THEN LET m == self[i].range \cap rhs.range IN
         PackageRequest(self[i].name, IF m = {} THEN {NoneVersion} ELSE m)
       ELSE self[i]]

RECURSIVE add_constraint_loop(_, _, _, _, _)
add_constraint_loop(self, rhs, i, result, found) ==
  IF i > Len(self)
    THEN Ok(IF found THEN result ELSE Append(result, rhs))
  ELSE LET p == self[i] IN
    IF rhs.name = p.name
      THEN LET m == merged_range(p, rhs) IN
        IF m = {} THEN RaiseVersionConflict
        ELSE add_constraint_loop(self, rhs, i + 1,
                                 Append(result, PackageRequest(p.name, m)), TRUE)
      ELSE add_constraint_loop(self, rhs, i + 1, Append(result, p), found)

\* A mutant of add_constraint: the entry of the family takes the range of
\* rhs instead of the merged range.
add_constraint_replacing(self, rhs) ==
  Ok(IF rhs.name \in Names(self)
       THEN [i \in DOMAIN self |-> IF self[i].name = rhs.name THEN rhs ELSE self[i]]
       ELSE Append(self, rhs))

\* A mutant of add_constraint: rhs is appended also when its family was
\* found.
add_constraint_appending(self, rhs) ==
  LET r == add_constraint_loop(self, rhs, 1, <<>>, FALSE)
  IN IF r.err = "none" /\ rhs.name \in Names(self) THEN Ok(Append(r.pkgs, rhs)) ELSE r

\* PackageList.add_constraint: pkgs is the new self._pkgs; on a raise
\* self._pkgs is not assigned.
add_constraint(self, rhs) == add_constraint_loop(self, rhs, 1, <<>>, FALSE)

\* PackageList.__add__: self._pkgs + rhs._pkgs.  _pkgs is a Python list
\* until add_constraint stores a PackageList in it (line 131); self_wrapped
\* and rhs_wrapped say that it has.  Two lists are concatenated, and so are
\* two PackageLists (by __add__ itself); a PackageList and a list are not:
\* __add__ reads _pkgs of the list (AttributeError), and a list cannot be
\* concatenated with a PackageList (TypeError).
list_add(self, self_wrapped, rhs, rhs_wrapped) ==
  IF self_wrapped = rhs_wrapped THEN Ok(self \o rhs)
  ELSE IF self_wrapped THEN [err |-> "AttributeError", pkgs |-> <<>>]
  ELSE [err |-> "TypeError", pkgs |-> <<>>]

\* ----------------------------------------------------------------- Recipe

\* Recipe.__init__: pkg is PackageRequest(f"{name}-{range}").  Recipe defines
\* no __eq__, so "rec in list" compares objects; the catalogs of the model
\* hold no two equal records, so record equality is object identity.
Recipe(name, range, variant, requires, build_requires, installed) ==
  [pkg |-> PackageRequest(name, range), variant |-> variant,
   requires |-> requires, build_requires |-> build_requires,
   installed |-> installed]

\* Recipe.conflicts_with_package
conflicts_with_package(self, rhs) ==
  \/ self.pkg.name = rhs.name /\ ~intersects(self.pkg.range, rhs.range)
  \/ list_conflicts_with(self.variant, rhs)
  \/ list_conflicts_with(self.requires, rhs)
  \/ list_conflicts_with(self.build_requires, rhs)

\* A mutant of conflicts_with_package_list: the recipe's own version is not
\* compared with the constraints.
conflicts_with_package_list_no_identity(self, rhs) ==
  \E i \in DOMAIN rhs :
    \/ has_conflicts_with(self.variant, rhs)
    \/ has_conflicts_with(self.requires, rhs)
    \/ has_conflicts_with(self.build_requires, rhs)

\* Recipe.conflicts_with_package_list: the loop over rhs returns True at the
\* first entry for which one of its four tests holds.
conflicts_with_package_list(self, rhs) ==
  \E i \in DOMAIN rhs :
    \/ self.pkg.name = rhs[i].name /\ ~intersects(self.pkg.range, rhs[i].range)
    \/ has_conflicts_with(self.variant, rhs)
    \/ has_conflicts_with(self.requires, rhs)
    \/ has_conflicts_with(self.build_requires, rhs)

\* --------------------------------------------------------------- resolver

\* Deepest nesting of resolver calls (has_dependency_conflict and
\* build_dependency_tree frames) the interpreter allows: one more raises
\* RecursionError, as Python does past its recursion limit.
MaxDepth == 6

\* "name in RECIPES.keys()"
InCatalog(RECIPES, name) == name \in DOMAIN RECIPES

\* failed_dependency_chain.append(constraints_conflict): the value appended
\* is the bool True that conflicts_with_package_list returned.
TrueEntry == [name |-> "True", range |-> {}]

\* str(rec.pkg), an entry of a dependency chain
ChainEntry(pkg) == [name |-> pkg.name, range |-> pkg.range]

\* What a call of has_dependency_conflict leaves: the bool it returned (or
\* the exception), the failed_dependency_chain list and the constraints
\* list, the two objects the caller passed in.
Hdc(err, conflict, chain, constraints) ==
  [err |-> err, conflict |-> conflict, chain |-> chain, constraints |-> constraints]

RECURSIVE has_dependency_conflict(_, _, _, _, _)
RECURSIVE hdc_pkgs(_, _, _, _, _, _, _)
RECURSIVE hdc_cands(_, _, _, _, _, _, _, _)

\* Lines 99-102, with h the result of the nested call: a candidate without
\* conflict clears all_conflict, and the loop goes on.
hdc_nested(h, pkg, cands, j, RECIPES, all_conflict, depth) ==
  IF h.err # "none" THEN h
  ELSE hdc_cands(pkg, cands, j + 1, h.constraints, RECIPES, h.chain,
                 all_conflict /\ h.conflict, depth)

\* The inner loop of has_dependency_conflict: "for rec in RECIPES[pkg.name]".
hdc_cands(pkg, cands, j, constraints, RECIPES, chain, all_conflict, depth) ==
  IF j > Len(cands) THEN Hdc("none", all_conflict, chain, constraints)
  ELSE IF conflicts_with(cands[j].pkg, pkg)
    THEN hdc_cands(pkg, cands, j + 1, constraints, RECIPES, chain, all_conflict, depth)
  ELSE hdc_nested(has_dependency_conflict(cands[j], constraints, RECIPES, chain,
                                          depth + 1),
                  pkg, cands, j, RECIPES, all_conflict, depth)

\* Line 93 onwards for the next request, with r the result of the loop over
\* the candidates of merged_reqs[i].
hdc_next_pkg(r, merged_reqs, i, RECIPES, depth) ==
  IF r.err # "none" THEN r
  ELSE hdc_pkgs(merged_reqs, i + 1, r.constraints, RECIPES, r.chain, r.conflict, depth)

\* The outer loop of has_dependency_conflict: "for pkg in merged"; a family
\* the catalog does not hold is passed over.
hdc_pkgs(merged_reqs, i, constraints, RECIPES, chain, all_conflict, depth) ==
  IF i > Len(merged_reqs) THEN Hdc("none", all_conflict, chain, constraints)
  ELSE IF InCatalog(RECIPES, merged_reqs[i].name)
    THEN hdc_next_pkg(hdc_cands(merged_reqs[i], RECIPES[merged_reqs[i].name], 1,
                                constraints, RECIPES, chain, all_conflict, depth),
                      merged_reqs, i, RECIPES, depth)
    ELSE hdc_pkgs(merged_reqs, i + 1, constraints, RECIPES, chain, all_conflict, depth)

\* A mutant of has_dependency_conflict: the recipe itself is not compared
\* with the constraints.
has_dependency_conflict_unchecked(recipe, constraints, RECIPES, chain, depth) ==
  IF depth > MaxDepth THEN Hdc("RecursionError", FALSE, chain, constraints)
  ELSE LET m == additive_merged(recipe.build_requires, recipe.requires) IN
    IF m.err # "none" THEN Hdc(m.err, FALSE, chain, constraints)
    ELSE IF Len(m.pkgs) # 0
      THEN hdc_pkgs(m.pkgs, 1, constraints, RECIPES, chain, TRUE, depth)
      ELSE Hdc("none", FALSE, chain, constraints)

\* has_dependency_conflict, entered at nesting depth "depth" of the resolver
\* calls: conflict is the bool it returns, chain the failed_dependency_chain
\* list after the call.  The constraints list is only read
\* (conflicts_with_package_list, line 84) and handed on to the nested calls
\* (line 100).
has_dependency_conflict(recipe, constraints, RECIPES, chain, depth) ==
  IF depth > MaxDepth THEN Hdc("RecursionError", FALSE, chain, constraints)
  ELSE IF conflicts_with_package_list(recipe, constraints)
    THEN Hdc("none", TRUE, Append(chain, TrueEntry), constraints)
  ELSE LET m == additive_merged(recipe.build_requires, recipe.requires) IN
    IF m.err # "none" THEN Hdc(m.err, FALSE, chain, constraints)
    ELSE IF Len(m.pkgs) # 0
      THEN hdc_pkgs(m.pkgs, 1, constraints, RECIPES, chain, TRUE, depth)
      ELSE Hdc("none", FALSE, chain, constraints)

\* The result of build_dependency_tree.  err is "none" when it returns and
\* names the exception otherwise; deps is the new_deps dict, a sequence of
\* [name, recs] in insertion order; constraints is the caller's constraints
\* list as the call leaves it; pkg and chains are the request and the
\* failed_dependency_chains an error message carries; history is the record
\* of what the constraints list held, step by step, up to there.
Bdt(err, deps, constraints, pkg, chains, history) ==
  [err |-> err, deps |-> deps, constraints |-> constraints,
   pkg |-> pkg, chains |-> chains, history |-> history]

\* An entry of the history of a constraints list: what the list holds after
\* the step "by": the deepcopy that made it (lines 641, 776), a call of
\* add_constraint on it (line 124), or a call of has_dependency_conflict it
\* was passed to (line 143).
Step(by, pkgs) == [by |-> by, pkgs |-> pkgs]

\* constraints = deepcopy(...): a new list and the start of its history.
Copied(constraints) == <<Step("deepcopy", constraints)>>

NoPkg == [name |-> "", range |-> {}]

\* raise RuntimeError(f"Could not find a recipe for {pkg}") (line 131): the
\* failure the specification calls RecipeNotFound.
RecipeNotFound == "RecipeNotFound"

\* raise RuntimeError(f"Could not find suitable recipe for {pkg}. ...")
\* (line 175): the failure the specification calls DependencyConflict.
DependencyConflict == "DependencyConflict"

DepNames(deps) == { deps[i].name : i \in DOMAIN deps }

DepRecs(deps, name) ==
  LET i == CHOOSE i \in DOMAIN deps : deps[i].name = name IN deps[i].recs

InSeq(x, s) == \E i \in DOMAIN s : s[i] = x

RECURSIVE ExtendRecs(_, _, _)
\* "for dr in dep_recs: if dr not in existing_recs: existing_recs.append(dr)"
ExtendRecs(existing_recs, dep_recs, k) ==
  IF k > Len(dep_recs) THEN existing_recs
  ELSE ExtendRecs(IF InSeq(dep_recs[k], existing_recs) THEN existing_recs
                  ELSE Append(existing_recs, dep_recs[k]),
                  dep_recs, k + 1)

\* new_deps with the recipes recs added under name (lines 158-164, 166-170).
AddRecs(new_deps, name, recs) ==
  IF name \in DepNames(new_deps)
    THEN [i \in DOMAIN new_deps |->
            IF new_deps[i].name = name
              THEN [name |-> name, recs |-> ExtendRecs(new_deps[i].recs, recs, 1)]
              ELSE new_deps[i]]
    ELSE Append(new_deps, [name |-> name, recs |-> recs])

RECURSIVE MergeDeps(_, _, _)
\* "for dep_name, dep_recs in dep_recipes.items()" (lines 157-164)
MergeDeps(new_deps, dep_recipes, k) ==
  IF k > Len(dep_recipes) THEN new_deps
  ELSE MergeDeps(AddRecs(new_deps, dep_recipes[k].name, dep_recipes[k].recs),
                 dep_recipes, k + 1)

RECURSIVE fold_constraints(_, _, _, _)
\* "for pkg in merged_requires: constraints.add_constraint(pkg)" (lines
\* 123-124): pkgs is the constraints list when the loop ends or raises.
fold_constraints(constraints, merged_requires, i, history) ==
  IF i > Len(merged_requires)
    THEN [err |-> "none", pkgs |-> constraints, history |-> history]
  ELSE LET r == add_constraint(constraints, merged_requires[i]) IN
    IF r.err # "none" THEN [err |-> r.err, pkgs |-> constraints, history |-> history]
    ELSE fold_constraints(r.pkgs, merged_requires, i + 1,
                          Append(history, Step("add_constraint", r.pkgs)))

\* merged_requires (lines 118-120)
merged_requires_of(recipe) ==
  LET m == additive_merged(recipe.build_requires, recipe.requires) IN
    IF m.err # "none" THEN m ELSE additive_merged(m.pkgs, recipe.variant)

RECURSIVE build_dependency_tree(_, _, _, _, _, _)
RECURSIVE bdt_pkgs(_, _, _, _, _, _, _, _)
RECURSIVE bdt_cands(_, _, _, _, _, _, _, _, _, _, _)

\* A mutant of bdt_recursed: the dependencies of rec are added to new_deps,
\* rec itself is not.
bdt_recursed_without_rec(sub, pkg, cands, j, new_deps, RECIPES, chain, failed_dependency_chains, depth) ==
  IF sub.err # "none"
    THEN Bdt(sub.err, new_deps, sub.constraints, sub.pkg, sub.chains, sub.history)
    ELSE bdt_cands(pkg, cands, j + 1, MergeDeps(new_deps, sub.deps, 1),
                   sub.constraints, RECIPES, chain, TRUE,
                   failed_dependency_chains, depth, sub.history)

\* Lines 153-170, with sub the result of the recursive call of line 151: an
\* exception of the call leaves the loop (nothing catches it); its deps and
\* rec itself are added to new_deps, and the loop goes on to the next
\* candidate.
bdt_recursed(sub, pkg, cands, j, new_deps, RECIPES, chain, failed_dependency_chains, depth) ==
  IF sub.err # "none"
    THEN Bdt(sub.err, new_deps, sub.constraints, sub.pkg, sub.chains, sub.history)
    ELSE bdt_cands(pkg, cands, j + 1,
                   AddRecs(MergeDeps(new_deps, sub.deps, 1), cands[j].pkg.name,
                           <<cands[j]>>),
                   sub.constraints, RECIPES, chain, TRUE,
                   failed_dependency_chains, depth, sub.history)

\* Lines 144-151, with h the result of has_dependency_conflict (line 143) and
\* history the history of the constraints list with that call in it: an
\* exception of the call passes through as it is (its message names no
\* request); a conflicting candidate is passed over and its chain kept,
\* another one is recursed into.
bdt_checked(h, pkg, cands, j, new_deps, RECIPES, chain, found_any, failed_dependency_chains, depth, history) ==
  IF h.err # "none"
    THEN Bdt(h.err, new_deps, h.constraints, NoPkg, <<>>, history)
  ELSE IF h.conflict
    THEN bdt_cands(pkg, cands, j + 1, new_deps, h.constraints, RECIPES, chain,
                   found_any, Append(failed_dependency_chains, h.chain), depth,
                   history)
  ELSE bdt_recursed(build_dependency_tree(cands[j], h.constraints, RECIPES,
                                          Append(chain, ChainEntry(cands[j].pkg)),
                                          depth + 1, history),
                    pkg, cands, j, new_deps, RECIPES, chain,
                    failed_dependency_chains, depth)

\* Line 143 onwards, with h the result of has_dependency_conflict: the call
\* enters the history of the constraints list it was passed.
bdt_called(h, pkg, cands, j, new_deps, RECIPES, chain, found_any, failed_dependency_chains, depth, history) ==
  bdt_checked(h, pkg, cands, j, new_deps, RECIPES, chain, found_any,
              failed_dependency_chains, depth,
              Append(history, Step("has_dependency_conflict", h.constraints)))

\* The loop "for rec in RECIPES[pkg.name]" (lines 137-172) from its j-th
\* turn, and the test of found_any after it (lines 174-175).
bdt_cands(pkg, cands, j, new_deps, constraints, RECIPES, chain, found_any, failed_dependency_chains, depth, history) ==
  IF j > Len(cands)
    THEN IF found_any
      THEN Bdt("none", new_deps, constraints, NoPkg, failed_dependency_chains, history)
      ELSE Bdt(DependencyConflict, new_deps, constraints, pkg,
               failed_dependency_chains, history)
  ELSE IF conflicts_with(cands[j].pkg, pkg)
    THEN bdt_cands(pkg, cands, j + 1, new_deps, constraints, RECIPES, chain,
                   found_any, failed_dependency_chains, depth, history)
  ELSE bdt_called(has_dependency_conflict(cands[j], constraints, RECIPES, chain,
                                          depth + 1),
                  pkg, cands, j, new_deps, RECIPES, chain, found_any,
                  failed_dependency_chains, depth, history)

\* Line 129 onwards for the next request, with r the result of the loop over
\* the candidates of merged_requires[i].
bdt_next_pkg(r, merged_requires, i, RECIPES, chain, depth) ==
  IF r.err # "none" THEN r
  ELSE bdt_pkgs(merged_requires, i + 1, r.deps, r.constraints, RECIPES, chain, depth,
                r.history)

\* The loop "for pkg in merged_requires" (lines 129-175) from its i-th turn.
bdt_pkgs(merged_requires, i, new_deps, constraints, RECIPES, chain, depth, history) ==
  IF i > Len(merged_requires)
    THEN Bdt("none", new_deps, constraints, NoPkg, <<>>, history)
  ELSE IF ~InCatalog(RECIPES, merged_requires[i].name)
    THEN Bdt(RecipeNotFound, new_deps, constraints, merged_requires[i], <<>>, history)
  ELSE bdt_next_pkg(bdt_cands(merged_requires[i], RECIPES[merged_requires[i].name], 1,
                              new_deps, constraints, RECIPES, chain, FALSE, <<>>,
                              depth, history),
                    merged_requires, i, RECIPES, chain, depth)

\* Lines 123-177, with f the constraints list after the fold.
bdt_folded(f, merged_requires, RECIPES, chain, depth) ==
  IF f.err # "none" THEN Bdt(f.err, <<>>, f.pkgs, NoPkg, <<>>, f.history)
  ELSE bdt_pkgs(merged_requires, 1, <<>>, f.pkgs, RECIPES, chain, depth, f.history)

\* Lines 118-177, with m the merged requirements.
bdt_merged(m, constraints, RECIPES, chain, depth, history) ==
  IF m.err # "none" THEN Bdt(m.err, <<>>, constraints, NoPkg, <<>>, history)
  ELSE bdt_folded(fold_constraints(constraints, m.pkgs, 1, history), m.pkgs, RECIPES,
                  chain, depth)

\* build_dependency_tree, entered at nesting depth "depth" of the resolver
\* calls (the driver's call: chain = [], depth 1), with the history of the
\* constraints list it is passed.
build_dependency_tree(recipe, constraints, RECIPES, chain, depth, history) ==
  IF depth > MaxDepth
    THEN Bdt("RecursionError", <<>>, constraints, NoPkg, <<>>, history)
  ELSE bdt_merged(merged_requires_of(recipe), constraints, RECIPES, chain, depth,
                  history)

\* ----------------------------------------------------------------- driver

Found(err, recs) == [err |-> err, recs |-> recs]

RECURSIVE find_recipe_loop(_, _, _, _, _, _)
\* Lines 211-216, with h the result of has_dependency_conflict: a recipe
\* without conflict is found.
find_recipe_checked(h, pkg_req, requested_variant, RECIPES, recipes, j, found) ==
  IF h.err # "none" THEN Found(h.err, found)
  ELSE find_recipe_loop(pkg_req, requested_variant, RECIPES, recipes, j + 1,
                        IF h.conflict THEN found ELSE Append(found, recipes[j]))

\* "for recipe in recipes" (lines 203-216)
find_recipe_loop(pkg_req, requested_variant, RECIPES, recipes, j, found) ==
  IF j > Len(recipes) THEN Found("none", found)
  ELSE IF conflicts_with(pkg_req, recipes[j].pkg)
    THEN find_recipe_loop(pkg_req, requested_variant, RECIPES, recipes, j + 1, found)
  ELSE find_recipe_checked(has_dependency_conflict(recipes[j], requested_variant,
                                                   RECIPES,
                                                   <<ChainEntry(recipes[j].pkg)>>, 1),
                           pkg_req, requested_variant, RECIPES, recipes, j, found)

\* find_recipe
find_recipe(pkg_req, requested_variant, RECIPES) ==
  IF ~InCatalog(RECIPES, pkg_req.name) THEN Found("none", <<>>)
  ELSE find_recipe_loop(pkg_req, requested_variant, RECIPES,
                        RECIPES[pkg_req.name], 1, <<>>)

\* What the walk of the requested variant gives: pkgs is the PackageList
\* returned (or, of a call that raised, the one held when it raised), pkg
\* and chains are the request and the failed_dependency_chains the message
\* of the exception carries; histories holds the history of every
\* constraints list the walk resolved on (line 641's copies).
Walked(err, pkgs, pkg, chains, histories) ==
  [err |-> err, pkgs |-> pkgs, pkg |-> pkg, chains |-> chains,
   histories |-> histories]

\* Lines 642-647, with t the result of build_dependency_tree: the copy of
\* the constraints is returned as the call left it.
gcfpr_resolved(t) == Walked(t.err, t.constraints, t.pkg, t.chains, <<t.history>>)

RECURSIVE gcfpr_loop(_, _, _, _, _)
\* "for rec in available_recipes" of get_constraints_from_package_recipes:
\* the first recipe that does not conflict is resolved on a copy of the
\* constraints, and the copy is returned.
gcfpr_loop(pkg_req, available_recipes, j, initial_constraints, RECIPES) ==
  IF j > Len(available_recipes) THEN Walked("CouldNotSolve", <<>>, pkg_req, <<>>, <<>>)
  ELSE IF conflicts_with_package_list(available_recipes[j], initial_constraints)
    THEN gcfpr_loop(pkg_req, available_recipes, j + 1, initial_constraints, RECIPES)
  ELSE gcfpr_resolved(build_dependency_tree(available_recipes[j], initial_constraints,
                                            RECIPES, <<>>, 1,
                                            Copied(initial_constraints)))

\* Lines 634-651, with a the result of find_recipe.
gcfpr_found(a, pkg_req, initial_constraints, RECIPES) ==
  IF a.err # "none" THEN Walked(a.err, <<>>, NoPkg, <<>>, <<>>)
  ELSE IF Len(a.recs) = 0 THEN Walked("NoRecipes", <<>>, pkg_req, <<>>, <<>>)
  ELSE gcfpr_loop(pkg_req, a.recs, 1, initial_constraints, RECIPES)

\* get_constraints_from_package_recipes
get_constraints_from_package_recipes(pkg_req, initial_constraints, RECIPES) ==
  gcfpr_found(find_recipe(pkg_req, initial_constraints, RECIPES), pkg_req,
              initial_constraints, RECIPES)

RECURSIVE walk_constraints(_, _, _, _, _)
\* Line 757, with m the result of additive_merged: requested_constraints is
\* assigned and the walk goes on to the next request.
walk_merged(m, requested_variant, i, requested_constraints, RECIPES, walks) ==
  IF m.err # "none" THEN Walked(m.err, requested_constraints, NoPkg, <<>>, walks)
  ELSE walk_constraints(requested_variant, i + 1, m.pkgs, RECIPES, walks)

\* Lines 755-757, with c the result of get_constraints_from_package_recipes.
walk_got(c, requested_variant, i, requested_constraints, RECIPES, walks) ==
  IF c.err # "none"
    THEN Walked(c.err, requested_constraints, c.pkg, c.chains, walks \o c.histories)
  ELSE walk_merged(additive_merged(requested_constraints, c.pkgs), requested_variant,
                   i, requested_constraints, RECIPES, walks \o c.histories)

\* "for req in requested_variant" (lines 753-757): pkgs is
\* requested_constraints when the loop ends or an exception leaves it, and
\* walks the histories of the constraints lists resolved on so far.
walk_constraints(requested_variant, i, requested_constraints, RECIPES, walks) ==
  IF i > Len(requested_variant)
    THEN Walked("none", requested_constraints, NoPkg, <<>>, walks)
  ELSE walk_got(get_constraints_from_package_recipes(requested_variant[i],
                                                     requested_variant, RECIPES),
                requested_variant, i, requested_constraints, RECIPES, walks)

RECURSIVE build_trees(_, _, _, _, _)
\* Lines 777-781, with t the result of build_dependency_tree (line 776).
build_trees_resolved(t, available_recipes, j, requested_constraints, RECIPES, trees) ==
  IF t.err # "none"
    THEN [err |-> t.err,
          trees |-> Append(trees, [toplevel |-> available_recipes[j],
                                   deps |-> <<>>, constraints |-> t.constraints,
                                   pkg |-> t.pkg, chains |-> t.chains,
                                   history |-> t.history])]
  ELSE build_trees(available_recipes, j + 1, requested_constraints, RECIPES,
                   Append(trees, [toplevel |-> available_recipes[j],
                                  deps |-> t.deps, constraints |-> t.constraints,
                                  pkg |-> NoPkg, chains |-> <<>>,
                                  history |-> t.history]))

\* "for rec in available_recipes" (lines 768-781): trees is a dict keyed by
\* the top-level Recipe object, here a sequence of [toplevel, deps,
\* constraints, history] with the constraints list of the tree's call and
\* its history.  A call that raised leaves a last entry without deps: the
\* local constraints (line 776) as the raise left it, and what the message of
\* the exception carries.
build_trees(available_recipes, j, requested_constraints, RECIPES, trees) ==
  IF j > Len(available_recipes) THEN [err |-> "none", trees |-> trees]
  ELSE IF conflicts_with_package_list(available_recipes[j], requested_constraints)
    THEN build_trees(available_recipes, j + 1, requested_constraints, RECIPES, trees)
  ELSE build_trees_resolved(build_dependency_tree(available_recipes[j],
                                                  requested_constraints, RECIPES,
                                                  <<>>, 1,
                                                  Copied(requested_constraints)),
                            available_recipes, j, requested_constraints, RECIPES,
                            trees)

\* One step of the selection split (lines 795-800, 802-807): rec goes to the
\* list its installed flag names unless one of the lists holds it.
select(sel, rec) ==
  IF InSeq(rec, sel.installed) \/ InSeq(rec, sel.to_cook) THEN sel
  ELSE IF rec.installed
    THEN [sel EXCEPT !.installed = Append(@, rec)]
    ELSE [sel EXCEPT !.to_cook = Append(@, rec)]

RECURSIVE split_deps(_, _, _)
\* "for name, recs in deps.items(): rec = recs[0]" (lines 793-800)
split_deps(deps, k, sel) ==
  IF k > Len(deps) THEN sel
  ELSE split_deps(deps, k + 1, select(sel, deps[k].recs[1]))

\* A mutant of selection_split: the top-level recipe is taken before its
\* dependencies.
selection_split_toplevel_first(tree) ==
  split_deps(tree.deps, 1,
             select([installed |-> <<>>, to_cook |-> <<>>], tree.toplevel))

\* The selection split (lines 787-813) of the first tree: the loop breaks
\* after it.
selection_split(tree) ==
  select(split_deps(tree.deps, 1, [installed |-> <<>>, to_cook |-> <<>>]),
         tree.toplevel)

\* solved_deps[name] with pkg appended unless the list holds an equal
\* request (lines 844-848); solved_deps is a sequence of [name, pkgs].
AddSolved(solved_deps, name, pkg) ==
  IF name \in DepNames(solved_deps)
    THEN [i \in DOMAIN solved_deps |->
            IF solved_deps[i].name = name /\ ~InSeq(pkg, solved_deps[i].pkgs)
              THEN [name |-> name, pkgs |-> Append(solved_deps[i].pkgs, pkg)]
              ELSE solved_deps[i]]
    ELSE Append(solved_deps, [name |-> name, pkgs |-> <<pkg>>])

RECURSIVE solve_recs(_, _, _, _)
solve_recs(solved_deps, name, recs, k) ==
  IF k > Len(recs) THEN solved_deps
  ELSE solve_recs(AddSolved(solved_deps, name, recs[k].pkg), name, recs, k + 1)

RECURSIVE solve_deps(_, _, _)
solve_deps(solved_deps, deps, k) ==
  IF k > Len(deps) THEN solved_deps
  ELSE solve_deps(solve_recs(solved_deps, deps[k].name, deps[k].recs, 1), deps, k + 1)

RECURSIVE solved_deps_of(_, _, _)
\* solved_deps (lines 840-848): for every name of every tree, the distinct
\* requests (name and version) of the recipes kept for it.
solved_deps_of(solved_deps, trees, t) ==
  IF t > Len(trees) THEN solved_deps
  ELSE solved_deps_of(solve_deps(solved_deps, trees[t].deps, 1), trees, t + 1)

SolvedPkgs(solved_deps, name) ==
  LET i == CHOOSE i \in DOMAIN solved_deps : solved_deps[i].name = name
  IN solved_deps[i].pkgs

Chk(err, unconstrained, solved_constraints) ==
  [err |-> err, unconstrained |-> unconstrained,
   solved_constraints |-> solved_constraints]

RECURSIVE check_reqs(_, _, _, _)
\* "for req in cook_variant_expanded" (lines 863-870)
check_reqs(cook_variant_expanded, k, solved_deps, chk) ==
  IF k > Len(cook_variant_expanded) THEN chk
  ELSE LET req == cook_variant_expanded[k] IN
    check_reqs(cook_variant_expanded, k + 1, solved_deps,
      IF is_any(req.range)
        THEN IF req.name \in DepNames(solved_deps)
                /\ Len(SolvedPkgs(solved_deps, req.name)) = 1
          THEN [chk EXCEPT !.solved_constraints =
                  Append(@, PackageRequest(req.name,
                             merged_range(req, SolvedPkgs(solved_deps, req.name)[1])))]
          ELSE IF ~InSeq(req, chk.unconstrained)
            THEN [chk EXCEPT !.unconstrained = Append(@, req)]
            ELSE chk
        ELSE [chk EXCEPT !.solved_constraints = Append(@, req)])

RECURSIVE check_variants_loop(_, _, _, _, _)
\* A mutant of check_variants: no variant member is reported unconstrained.
check_variants_silent(selected_to_cook, k, requested_constraints, solved_deps, chk) ==
  LET c == check_variants_loop(selected_to_cook, k, requested_constraints,
                               solved_deps, chk)
  IN [c EXCEPT !.unconstrained = <<>>]

\* "for rec in selected_to_cook" (lines 861-870)
check_variants(selected_to_cook, k, requested_constraints, solved_deps, chk) ==
  check_variants_loop(selected_to_cook, k, requested_constraints, solved_deps, chk)

check_variants_loop(selected_to_cook, k, requested_constraints, solved_deps, chk) ==
  IF k > Len(selected_to_cook) THEN chk
  ELSE LET e == merged_into(selected_to_cook[k].variant, requested_constraints) IN
    IF e.err # "none" THEN [chk EXCEPT !.err = e.err]
    ELSE check_variants_loop(selected_to_cook, k + 1, requested_constraints,
                             solved_deps, check_reqs(e.pkgs, 1, solved_deps, chk))

\* The versions printed for an unconstrained request (lines 879-887):
\* f"{req.range}" for every req of solved_deps[pkg.name].
listed_versions(solved_deps, pkg) ==
  LET reqs == SolvedPkgs(solved_deps, pkg.name)
  IN { reqs[i].range : i \in DOMAIN reqs }

\* cook_recipe: after staging the package.py it expands the variant with
\* recipe.variant.merged_into(constraints) (line 381).  The driver passes
\* solved_constraints, a Python list, where merged_into reads rhs._pkgs: the
\* call raises AttributeError before anything is built.
cook_recipe(recipe, constraints) == "AttributeError"

\* ----------------------------------------------------------------- inputs

\* PLATFORM_VARIANT (line 22): the platform and the architecture of the
\* machine, each a family of one installed package.
PlatformRange == {1}

PLATFORM_VARIANT ==
  <<PackageRequest("platform", PlatformRange), PackageRequest("arch", PlatformRange)>>

\* REQUESTED_VARIANT (line 26)
REQUESTED_VARIANT == PLATFORM_VARIANT

RECURSIVE Descending(_)
\* The versions of S, newest first: load_recipes reads rez-search's listing
\* in reverse.
Descending(S) ==
  IF S = {} THEN <<>>
  ELSE LET v == CHOOSE v \in S : \A w \in S : w <= v
       IN <<v>> \o Descending(S \ {v})

\* An optional request: none when the range is empty.
Req(name, range) == IF range = {} THEN <<>> ELSE <<PackageRequest(name, range)>>

\* The text of a range holds only letters, digits, "_", "." and "-": a
\* single version ("1", "None") and any (no text) do; the other ranges are
\* written with "+" or "<".
WordRange(range) == is_any(range) \/ Cardinality(range) = 1

\* parse_variants: the requests of a variant as rez-search prints it.  The
\* pattern PackageRequest\('([\w\.-]+)'\) finds only the requests whose text
\* is made of word characters, "." and "-"; the others are left out.
parse_variants(variant) == SelectSeq(variant, LAMBDA p : WordRange(p.range))

\* The recipes load_recipes makes of one family's rows: a Recipe per version,
\* newest first.  The variant is read by parse_variants, requires and
\* build_requires are split at the blanks.
FamilyRecipes(name, versions, variant, requires, build_requires, installed) ==
  LET vs == Descending(versions)
  IN [k \in DOMAIN vs |->
        Recipe(name, {vs[k]}, parse_variants(variant), requires, build_requires,
               installed)]

\* The recipes load_recipes makes of a repository of four families besides
\* platform and arch: root requires a and b (and c when rr is a range), a
\* asks for c in the range ra through its variant, requires or
\* build_requires (ak), b requires c in rb (and a when ba), c comes in the
\* versions cv and requires a when cyc.  inst names the families whose
\* packages are installed.  A family without versions has no key.
MkCatalog(p) ==
  LET inst(n) == n \in p.inst
      fam ==
        [n \in {"platform", "arch", "root", "a", "b", "c"} |->
          CASE n = "platform" ->
                 FamilyRecipes(n, PlatformRange, <<>>, <<>>, <<>>, TRUE)
            [] n = "arch" ->
                 FamilyRecipes(n, PlatformRange, <<>>, <<>>, <<>>, TRUE)
            [] n = "root" ->
                 FamilyRecipes(n, p.rv, <<>>,
                               <<PackageRequest("a", AnyRange),
                                 PackageRequest("b", AnyRange)>> \o Req("c", p.rr),
                               <<>>, inst(n))
            [] n = "a" ->
                 FamilyRecipes(n, {1},
                               IF p.ak = "variant" THEN Req("c", p.ra) ELSE <<>>,
                               IF p.ak = "requires" THEN Req("c", p.ra) ELSE <<>>,
                               IF p.ak = "build_requires" THEN Req("c", p.ra) ELSE <<>>,
                               inst(n))
            [] n = "b" ->
                 FamilyRecipes(n, {1}, <<>>,
                               Req("c", p.rb) \o
                                 (IF p.ba THEN <<PackageRequest("a", AnyRange)>> ELSE <<>>),
                               <<>>, inst(n))
            [] n = "c" ->
                 FamilyRecipes(n, p.cv, <<>>,
                               IF p.cyc THEN <<PackageRequest("a", AnyRange)>> ELSE <<>>,
                               <<>>, inst(n))]
  IN [n \in { m \in DOMAIN fam : fam[m] # <<>> } |-> fam[n]]

\* A range or none.
OptRanges == Ranges \cup {{}}

BaseParams ==
  [rv |-> {1}, rr |-> {}, ra |-> {}, rb |-> {}, ba |-> FALSE, ak |-> "requires",
   cv |-> {}, cyc |-> FALSE, inst |-> {}]

\* The repositories drawn: every combination of the versions of c with the
\* ranges a and b ask of it; the places a can state its requirement, with
\* the installed families; root's own requirement on c; two versions of
\* root; b requiring a; and the cyclic repositories.
CatalogParams ==
  { [BaseParams EXCEPT !.cv = cv, !.ra = ra, !.rb = rb] :
      cv \in VersionSets, ra \in OptRanges, rb \in OptRanges }
  \cup
  { [BaseParams EXCEPT !.cv = cv, !.ra = ra, !.ak = ak, !.inst = inst] :
      cv \in VersionSets, ra \in {AnyRange, {1}},
      ak \in {"variant", "requires", "build_requires"},
      inst \in SUBSET {"root", "a", "b", "c"} }
  \cup
  { [BaseParams EXCEPT !.cv = cv, !.rr = rr, !.ra = ra] :
      cv \in VersionSets, rr \in OptRanges, ra \in {{}, AnyRange, {1}} }
  \cup
  { [BaseParams EXCEPT !.cv = cv, !.rv = {0, 1}, !.rb = rb] :
      cv \in VersionSets, rb \in OptRanges }
  \cup
  { [BaseParams EXCEPT !.cv = cv, !.ra = ra, !.rb = rb, !.ba = TRUE] :
      cv \in VersionSets, ra \in {{}, AnyRange}, rb \in OptRanges }
  \cup
  { [BaseParams EXCEPT !.cv = cv, !.ra = ra, !.cyc = TRUE] :
      cv \in VersionSets \ {{}}, ra \in OptRanges }

\* The recipes load_recipes makes of a repository whose versions of c
\* differ in what they ask for: the newest c has the variant q.cnew and the
\* older ones require q.cold; a requires c in q.ra and names c in q.va in
\* its variant; root requires a; b is a single version without requirements
\* and no family d exists.
MkVariedCatalog(q) ==
  LET newest == CHOOSE v \in q.cv : \A w \in q.cv : w <= v
      leaf(n) == FamilyRecipes(n, PlatformRange, <<>>, <<>>, <<>>, n \in {"platform", "arch"})
  IN [n \in {"platform", "arch", "root", "a", "b", "c"} |->
        CASE n = "root" ->
               FamilyRecipes(n, {1}, <<>>, <<PackageRequest("a", AnyRange)>>, <<>>, FALSE)
          [] n = "a" ->
               FamilyRecipes(n, {1}, Req("c", q.va), Req("c", q.ra), <<>>, FALSE)
          [] n = "c" ->
               FamilyRecipes(n, {newest}, q.cnew, <<>>, <<>>, FALSE)
                 \o FamilyRecipes(n, q.cv \ {newest}, <<>>, q.cold, <<>>, FALSE)
          [] OTHER -> leaf(n)]

\* The varied repositories drawn: c in its newest versions; what a asks of
\* c; a newest c whose variant names the absent family d, a version of b
\* that does not exist, or b; older versions of c that require b.
VariedParams ==
  { [cv |-> lo .. MaxVer, ra |-> ra, va |-> va, cnew |-> cnew, cold |-> cold] :
      lo \in Versions, ra \in OptRanges, va \in {{}, {1}, AnyRange},
      cnew \in {<<>>, <<PackageRequest("d", AnyRange)>>, <<PackageRequest("b", {0})>>,
                <<PackageRequest("b", AnyRange)>>},
      cold \in {<<>>, <<PackageRequest("b", PlatformRange)>>,
                <<PackageRequest("b", AnyRange)>>} }

\* load_recipes, with recipes the Recipe lists made of the two listings: the
\* listing of the recipe path is empty when every package of the repository
\* is installed, and the function raises instead of returning (lines
\* 596-597).
load_recipes(recipes) ==
  IF \A n \in DOMAIN recipes : \A k \in DOMAIN recipes[n] : recipes[n][k].installed
    THEN [err |-> "RuntimeError", RECIPES |-> <<>>]
    ELSE [err |-> "none", RECIPES |-> recipes]

Repositories ==
  { MkCatalog(p) : p \in CatalogParams } \cup { MkVariedCatalog(q) : q \in VariedParams }

\* The catalogs a run goes on with: what load_recipes returned (line 739).
Catalogs ==
  { load_recipes(r).RECIPES : r \in { x \in Repositories : load_recipes(x).err = "none" } }

\* PackageList(REQUESTED_VARIANT + (args.constrain or [])) (line 730): two
\* Python lists of request texts are concatenated and PackageList.__init__
\* makes a request of every text, without looking at the names.
requested_variant_of(constrain) == REQUESTED_VARIANT \o constrain

\* args.package
PackageArgs == { PackageRequest(n, AnyRange) : n \in {"root", "a", "c"} }

\* args.constrain: nothing, a version of c, or the platform once more.
ConstrainArgs ==
  {<<>>, <<PackageRequest("platform", PlatformRange)>>}
  \cup { <<PackageRequest("c", {v})>> : v \in Versions }

\* ------------------------------------------------------------------ state

VARIABLES
  RECIPES,               \* the catalog load_recipes built
  pkg_req,               \* PackageRequest(args.package)
  requested_variant,     \* PackageList(REQUESTED_VARIANT + args.constrain)
  pc,                    \* where the driver is
  available_recipes,     \* find_recipe's list for pkg_req
  requested_constraints, \* the constraints after the walk of lines 752-757
  walks,                 \* the histories of the constraints lists of the walk
  trees,                 \* the trees dict
  selected_installed,
  selected_to_cook,
  solved_deps,
  unconstrained,
  solved_constraints,
  cook_calls,            \* the recipes cook_recipe was called with, in order
  outcome,               \* how the run ended
  self,                  \* a merge operation: its left operand,
  rhs,                   \*   its right operand,
  op,                    \*   the method called,
  result                 \*   what it returned or raised

driver_vars ==
  <<pkg_req, requested_variant, pc, available_recipes, requested_constraints,
    walks, trees, selected_installed, selected_to_cook, solved_deps, unconstrained,
    solved_constraints, cook_calls, outcome>>

algebra_vars == <<self, rhs, op, result>>

vars == <<RECIPES, driver_vars, algebra_vars>>

Running == [kind |-> "running", code |-> 0, err |-> "none", pkg |-> NoPkg,
            chains |-> <<>>, listed |-> {}]

\* sys.exit(code), or the end of the script (code 0)
Exit(code) == [Running EXCEPT !.kind = "exit", !.code = code]

\* An exception that leaves the script.
Raised(err, pkg, chains) ==
  [Running EXCEPT !.kind = "raise", !.code = 1, !.err = err, !.pkg = pkg,
                  !.chains = chains]

DriverIdle ==
  /\ pkg_req = NoPkg
  /\ requested_variant = <<>>
  /\ pc = "idle"
  /\ available_recipes = <<>>
  /\ requested_constraints = <<>>
  /\ walks = <<>>
  /\ trees = <<>>
  /\ selected_installed = <<>>
  /\ selected_to_cook = <<>>
  /\ solved_deps = <<>>
  /\ unconstrained = <<>>
  /\ solved_constraints = <<>>
  /\ cook_calls = <<>>
  /\ outcome = Running

AlgebraIdle ==
  /\ self = <<>>
  /\ rhs = <<>>
  /\ op = "idle"
  /\ result = Ok(<<>>)

\* ------------------------------------------------------------- the driver

\* The script has parsed its arguments and loaded the catalog (lines
\* 727-739).
Init ==
  /\ RECIPES \in Catalogs
  /\ pkg_req \in PackageArgs
  /\ \E constrain \in ConstrainArgs :
       requested_variant = requested_variant_of(constrain)
  /\ pc = "find"
  /\ available_recipes = <<>>
  /\ requested_constraints = <<>>
  /\ walks = <<>>
  /\ trees = <<>>
  /\ selected_installed = <<>>
  /\ selected_to_cook = <<>>
  /\ solved_deps = <<>>
  /\ unconstrained = <<>>
  /\ solved_constraints = <<>>
  /\ cook_calls = <<>>
  /\ outcome = Running
  /\ AlgebraIdle

Stop(how) == pc' = "done" /\ outcome' = how

\* Lines 742-747: the recipes compatible with the requested package.
FindRecipe ==
  /\ pc = "find"
  /\ LET a == find_recipe(pkg_req, requested_variant, RECIPES) IN
       IF a.err # "none"
         THEN /\ Stop(Raised(a.err, NoPkg, <<>>))
              /\ UNCHANGED available_recipes
         ELSE /\ available_recipes' = a.recs
              /\ pc' = "constraints"
              /\ UNCHANGED outcome
  /\ UNCHANGED <<RECIPES, pkg_req, requested_variant, requested_constraints, walks, trees,
                 selected_installed, selected_to_cook, solved_deps, unconstrained,
                 solved_constraints, cook_calls, algebra_vars>>

\* Lines 752-757: the walk of the requested variant's own dependencies.
\* requested_constraints starts as a copy of requested_variant (line 752)
\* and is assigned after every request walked; an exception leaves it as it
\* was merged so far.
WalkConstraints ==
  /\ pc = "constraints"
  /\ LET w == walk_constraints(requested_variant, 1, requested_variant, RECIPES, <<>>) IN
       /\ requested_constraints' = w.pkgs
       /\ walks' = w.histories
       /\ IF w.err # "none"
            THEN Stop(Raised(w.err, w.pkg, w.chains))
            ELSE pc' = "trees" /\ UNCHANGED outcome
  /\ UNCHANGED <<RECIPES, pkg_req, requested_variant, available_recipes, trees,
                 selected_installed, selected_to_cook, solved_deps, unconstrained,
                 solved_constraints, cook_calls, algebra_vars>>

\* Lines 768-785: a tree for every available recipe; exit 1 when there is
\* none.
BuildTrees ==
  /\ pc = "trees"
  /\ LET t == build_trees(available_recipes, 1, requested_constraints, RECIPES, <<>>) IN
       /\ trees' = t.trees
       /\ IF t.err # "none"
            THEN Stop(Raised(t.err, t.trees[Len(t.trees)].pkg,
                             t.trees[Len(t.trees)].chains))
            ELSE IF t.trees = <<>>
              THEN Stop(Exit(1))
              ELSE pc' = "split" /\ UNCHANGED outcome
  /\ UNCHANGED <<RECIPES, pkg_req, requested_variant, available_recipes,
                 requested_constraints, walks, selected_installed, selected_to_cook,
                 solved_deps, unconstrained, solved_constraints, cook_calls,
                 algebra_vars>>

\* Lines 787-813: the selection split of the first tree.
Split ==
  /\ pc = "split"
  /\ LET sel == selection_split(trees[1]) IN
       /\ selected_installed' = sel.installed
       /\ selected_to_cook' = sel.to_cook
  /\ pc' = "variants"
  /\ UNCHANGED <<RECIPES, pkg_req, requested_variant, available_recipes,
                 requested_constraints, walks, trees, solved_deps, unconstrained,
                 solved_constraints, cook_calls, outcome, algebra_vars>>

\* Lines 840-911: solved_deps, the check for unconstrained variants (exit 2
\* with the versions listed), and "Nothing to cook" (exit 0).  The run is
\* one with --yes and without --dry-run.
CheckVariants ==
  /\ pc = "variants"
  /\ LET sd == solved_deps_of(<<>>, trees, 1)
         chk == check_variants(selected_to_cook, 1, requested_constraints, sd,
                               Chk("none", <<>>, <<>>))
     IN /\ solved_deps' = sd
        /\ unconstrained' = chk.unconstrained
        /\ solved_constraints' = chk.solved_constraints
        /\ IF chk.err # "none" THEN Stop(Raised(chk.err, NoPkg, <<>>))
           ELSE IF chk.unconstrained # <<>>
             THEN IF \E i \in DOMAIN chk.unconstrained :
                        chk.unconstrained[i].name \notin DepNames(sd)
               THEN Stop(Raised("KeyError", NoPkg, <<>>))
               ELSE Stop([Exit(2) EXCEPT !.listed =
                            { [name |-> chk.unconstrained[i].name,
                               versions |-> listed_versions(sd, chk.unconstrained[i])] :
                              i \in DOMAIN chk.unconstrained }])
           ELSE IF selected_to_cook = <<>> THEN Stop(Exit(0))
           ELSE pc' = "cook" /\ UNCHANGED outcome
  /\ UNCHANGED <<RECIPES, pkg_req, requested_variant, available_recipes,
                 requested_constraints, walks, trees, selected_installed, selected_to_cook,
                 cook_calls, algebra_vars>>

\* Lines 924-926: one turn of the cook loop.
Cook ==
  /\ pc = "cook"
  /\ LET next == selected_to_cook[Len(cook_calls) + 1]
         r == cook_recipe(next, solved_constraints)
     IN /\ cook_calls' = Append(cook_calls, next)
        /\ IF r # "none" THEN Stop(Raised(r, NoPkg, <<>>))
           ELSE IF Len(cook_calls) + 1 = Len(selected_to_cook) THEN Stop(Exit(0))
           ELSE UNCHANGED <<pc, outcome>>
  /\ UNCHANGED <<RECIPES, pkg_req, requested_variant, available_recipes,
                 requested_constraints, walks, trees, selected_installed, selected_to_cook,
                 solved_deps, unconstrained, solved_constraints, algebra_vars>>

Next == FindRecipe \/ WalkConstraints \/ BuildTrees \/ Split \/ CheckVariants \/ Cook

Spec == Init /\ [][Next]_vars

\* ------------------------------------------------------ the merge algebra

\* The PackageLists with unique names over the families of names, in every
\* order, with every range.
RECURSIVE UniqueLists(_)
UniqueLists(names) ==
  {<<>>} \cup
  UNION { { <<PackageRequest(n, r)>> \o l : r \in Ranges, l \in UniqueLists(names \ {n}) } :
          n \in names }

\* Two PackageLists are built and a merge method of the first is called with
\* the second.
InitAlgebra ==
  /\ RECIPES = <<>>
  /\ DriverIdle
  /\ self \in UniqueLists({"x", "y"})
  /\ rhs \in UniqueLists({"y", "z"})
  /\ op = "none"
  /\ result = Ok(<<>>)

Call(method, value) ==
  /\ op = "none"
  /\ op' = method
  /\ result' = value
  /\ UNCHANGED <<RECIPES, driver_vars, self, rhs>>

AdditiveMerged == Call("additive_merged", additive_merged(self, rhs))

Merged == Call("merged", merged(self, rhs))

MergedInto == Call("merged_into", merged_into(self, rhs))

NextAlgebra == AdditiveMerged \/ Merged \/ MergedInto

SpecAlgebra == InitAlgebra /\ [][NextAlgebra]_vars

\* ------------------------------------------- add_constraint, called twice

\* The requests add_constraint is called with.
Requests == { PackageRequest(n, r) : n \in {"y", "z"}, r \in Ranges }

\* A PackageList is built; add_constraint is called on it with one request,
\* and then once more with the same request.  Here rhs is the request.
InitAddConstraint ==
  /\ RECIPES = <<>>
  /\ DriverIdle
  /\ self \in UniqueLists({"x", "y"})
  /\ rhs \in Requests
  /\ op = "none"
  /\ result = Ok(<<>>)

\* self.add_constraint(rhs): self._pkgs is assigned unless the call raises.
AddConstraint ==
  /\ op \in {"none", "add_constraint"}
  /\ LET r == add_constraint(self, rhs) IN
       /\ result' = r
       /\ self' = IF r.err = "none" THEN r.pkgs ELSE self
  /\ op' = IF op = "none" THEN "add_constraint" ELSE "add_constraint_again"
  /\ UNCHANGED <<RECIPES, driver_vars, rhs>>

NextAddConstraint == AddConstraint

SpecAddConstraint == InitAddConstraint /\ [][NextAddConstraint]_vars

\* ------------------------------------------------- the conflict predicates

\* The recipes a conflict predicate is called on: a version of the family y
\* with an optional variant member z and an optional requirement on z.
OneRecipeCatalogs ==
  { [n \in {"y"} |-> <<Recipe("y", {v}, variant, requires, <<>>, FALSE)>>] :
      v \in Versions,
      variant \in { Req("z", r) : r \in OptRanges },
      requires \in {<<>>} \cup { <<PackageRequest("z", {w})>> : w \in Versions } }

\* Either two PackageLists are built, for has_conflicts_with, or a Recipe
\* (the one of RECIPES) and a PackageList, for the predicates of Recipe.
InitConflicts ==
  /\ DriverIdle
  /\ rhs \in UniqueLists({"y", "z"})
  /\ \/ RECIPES = <<>> /\ self \in UniqueLists({"x", "y"})
     \/ RECIPES \in OneRecipeCatalogs /\ self = <<>>
  /\ op = "none"
  /\ result = Ok(<<>>)

\* What a predicate returned: the bool, and the request it was asked about.
Answer(conflict, about) ==
  [err |-> "none", pkgs |-> about, conflict |-> conflict]

\* self.has_conflicts_with(rhs)
HasConflictsWith ==
  /\ RECIPES = <<>>
  /\ Call("has_conflicts_with", Answer(has_conflicts_with(self, rhs), <<>>))

\* recipe.conflicts_with_package_list(rhs)
ConflictsWithPackageList ==
  /\ RECIPES # <<>>
  /\ Call("conflicts_with_package_list",
          Answer(conflicts_with_package_list(RECIPES["y"][1], rhs), <<>>))

\* recipe.conflicts_with_package(p) for an entry p of rhs
ConflictsWithPackage ==
  /\ RECIPES # <<>>
  /\ \E k \in DOMAIN rhs :
       Call("conflicts_with_package",
            Answer(conflicts_with_package(RECIPES["y"][1], rhs[k]), <<rhs[k]>>))

NextConflicts == HasConflictsWith \/ ConflictsWithPackageList \/ ConflictsWithPackage

SpecConflicts == InitConflicts /\ [][NextConflicts]_vars

\* ---------------------------------------------------- words of the claims

\* The driver has built the trees of the recipes it found, and goes on.
TreesBuilt == pc \in {"split", "variants", "cook"}

\* The range a PackageList with unique names holds for a family.
RangeOf(pkgs, name) == DictGet(pkgs, name).range

\* Some family named by both lists has no version in both ranges.
SharedConflict(a, b) ==
  \E n \in Names(a) \cap Names(b) : RangeOf(a, n) \cap RangeOf(b, n) = {}

\* Everything a recipe asks for: build_requires, requires and variant.
Asked(rec) == rec.build_requires \o rec.requires \o rec.variant

\* The versions of a family a recipe accepts.
AskedRange(rec, name) ==
  LET reqs == Asked(rec)
  IN { v \in Versions : \A i \in DOMAIN reqs : reqs[i].name = name => v \in reqs[i].range }

RecipesOf(name) ==
  IF name \in DOMAIN RECIPES
    THEN { RECIPES[name][i] : i \in DOMAIN RECIPES[name] }
    ELSE {}

\* The families some recipe of a family of S asks for.
AskedBy(S) == UNION { Names(Asked(rec)) : rec \in UNION { RecipesOf(n) : n \in S } }

RECURSIVE Closure(_, _)
Closure(S, k) == IF k = 0 THEN S ELSE Closure(S \cup AskedBy(S), k - 1)

\* The families the recipes of name transitively ask for.
Reaches(name) == Closure(AskedBy({name}), Cardinality(DOMAIN RECIPES) + 1)

\* No family transitively requires itself.
Acyclic == \A n \in DOMAIN RECIPES : n \notin Reaches(n)

Selection == selected_installed \o selected_to_cook

\* The recipes the split selected for a family.
SelectedFor(name) ==
  { Selection[i] : i \in { k \in DOMAIN Selection : Selection[k].pkg.name = name } }

\* The driver has just split the first tree.
SplitDone == pc = "variants"

\* ------------------------------------------------------------------ claims

\* C1 (as claimed): in a diamond, where root requires a and b and both ask
\* for c in overlapping but different ranges, the split selects exactly one
\* recipe of c, and its version lies in both ranges.
C1_DiamondSelectsIntersection ==
  (/\ SplitDone
   /\ pkg_req.name = "root"
   /\ "c" \in Names(Asked(RECIPES["a"][1]))
   /\ "c" \in Names(Asked(RECIPES["b"][1]))
   /\ AskedRange(RECIPES["a"][1], "c") # AskedRange(RECIPES["b"][1], "c")
   /\ AskedRange(RECIPES["a"][1], "c") \cap AskedRange(RECIPES["b"][1], "c") # {})
  => /\ Cardinality(SelectedFor("c")) = 1
     /\ \A rec \in SelectedFor("c") :
          rec.pkg.range \subseteq
            AskedRange(RECIPES["a"][1], "c") \cap AskedRange(RECIPES["b"][1], "c")

\* C2: on an acyclic catalog the list to cook is a build order: a selected
\* recipe that a recipe of the list asks for stands before it, a top-level
\* recipe that is to be cooked stands last, and cook_recipe is called in the
\* order of the list.
C2_BuildOrder ==
  /\ (SplitDone /\ Acyclic) =>
       /\ \A i, j \in DOMAIN selected_to_cook :
            selected_to_cook[j].pkg.name \in Names(Asked(selected_to_cook[i])) => j < i
       /\ ~trees[1].toplevel.installed =>
            /\ selected_to_cook # <<>>
            /\ selected_to_cook[Len(selected_to_cook)] = trees[1].toplevel
  /\ \A i \in DOMAIN cook_calls :
       i \in DOMAIN selected_to_cook /\ cook_calls[i] = selected_to_cook[i]

\* C2's case: c, then a that requires it, then the top-level root are to be
\* cooked.
C2_Witness ==
  /\ SplitDone /\ Acyclic
  /\ Len(selected_to_cook) >= 4
  /\ \E i, j \in DOMAIN selected_to_cook :
       /\ i < j
       /\ selected_to_cook[i].pkg.name = "c"
       /\ selected_to_cook[j].pkg.name = "a"
       /\ "c" \in Names(Asked(selected_to_cook[j]))

\* The run had no --constrain.
NoConstrain == requested_variant = REQUESTED_VARIANT

\* C3 (as claimed): when the requested family, or a family its recipes
\* transitively ask for, has no entry in the catalog, the run ends with the
\* RecipeNotFound failure.
C3_AbsentFamilyIsRecipeNotFound ==
  (/\ pc = "done"
   /\ NoConstrain
   /\ ({pkg_req.name} \cup Reaches(pkg_req.name)) \ DOMAIN RECIPES # {})
  => outcome.kind = "raise" /\ outcome.err = RecipeNotFound

\* A dependency chain that names a family.
ChainNames(chains, name) ==
  \E i \in DOMAIN chains : \E k \in DOMAIN chains[i] : chains[i][k].name = name

\* C4 (as claimed): a requires c, and the only recipe of c has a version
\* outside the range a asks for: the run ends with the DependencyConflict
\* failure, which names c (in its message or in its chains).
C4_TwoNodeConflictNamesDep ==
  (/\ pc = "done"
   /\ NoConstrain
   /\ pkg_req.name = "a"
   /\ "c" \in Names(Asked(RECIPES["a"][1]))
   /\ "c" \in DOMAIN RECIPES
   /\ Len(RECIPES["c"]) = 1
   /\ RECIPES["c"][1].requires = <<>>
   /\ RECIPES["c"][1].pkg.range \cap AskedRange(RECIPES["a"][1], "c") = {})
  => /\ outcome.kind = "raise"
     /\ outcome.err = DependencyConflict
     /\ outcome.pkg.name = "c" \/ ChainNames(outcome.chains, "c")

\* C5 (as claimed): resolution never recurses without bound; on a catalog
\* with a requirement cycle it ends with the CyclicDependency failure.
C5_CycleRejected ==
  /\ outcome.err # "RecursionError"
  /\ (pc = "done" /\ pkg_req.name \in Reaches(pkg_req.name)) =>
       outcome.err = "CyclicDependency"

\* The versions of a family among the recipes of all the trees.
ForestVersions(name) ==
  UNION { UNION { { trees[t].deps[k].recs[i].pkg.range :
                      i \in DOMAIN trees[t].deps[k].recs } :
                  k \in { d \in DOMAIN trees[t].deps : trees[t].deps[d].name = name } } :
          t \in DOMAIN trees }

\* The members of the variants of the recipes to cook that are still "any"
\* once merged into the resolved constraints.
AnyMembers ==
  UNION { LET e == merged_into(selected_to_cook[i].variant, requested_constraints)
          IN { e.pkgs[k].name : k \in { m \in DOMAIN e.pkgs : is_any(e.pkgs[m].range) } } :
          i \in DOMAIN selected_to_cook }

\* The driver is past its check of the variants.
VariantsChecked == pc = "cook" \/ (pc = "done" /\ trees # <<>> /\ outcome.kind = "exit")

\* C6: of the "any" members of the variants to cook, one with a single
\* version in the solved forest is pinned to it in solved_constraints; if
\* some member has several, the driver exits with status 2, lists for each
\* such member all its versions, and has called cook_recipe for nothing.
C6_UnconstrainedVariants ==
  /\ VariantsChecked =>
       /\ \A n \in AnyMembers :
            Cardinality(ForestVersions(n)) = 1 =>
              \E i \in DOMAIN solved_constraints :
                /\ solved_constraints[i].name = n
                /\ {solved_constraints[i].range} = ForestVersions(n)
       /\ (\E n \in AnyMembers : Cardinality(ForestVersions(n)) > 1) <=>
            outcome = [Exit(2) EXCEPT !.listed =
                         { [name |-> n, versions |-> ForestVersions(n)] :
                           n \in { m \in AnyMembers : Cardinality(ForestVersions(m)) > 1 } }]
  /\ outcome.code = 2 => cook_calls = <<>>

\* C6's case: a is to be cooked, its variant names c without a version, and
\* two installed versions of c are in the forest: exit 2, both listed.
C6_Witness ==
  /\ pc = "done"
  /\ outcome.kind = "exit" /\ outcome.code = 2
  /\ \E i \in DOMAIN selected_to_cook :
       /\ selected_to_cook[i].pkg.name = "a"
       /\ selected_to_cook[i].variant = <<PackageRequest("c", AnyRange)>>
  /\ \E l \in outcome.listed : l.name = "c" /\ Cardinality(l.versions) = 2
  /\ \A rec \in RecipesOf("c") : rec.installed

\* Every PackageList the state holds.
PackageLists ==
  {requested_variant, requested_constraints, unconstrained}
  \cup { trees[t].constraints : t \in DOMAIN trees }
  \cup UNION { UNION { {rec.variant, rec.requires, rec.build_requires} :
                       rec \in RecipesOf(n) } : n \in DOMAIN RECIPES }

\* C7 (as claimed): no PackageList holds two entries of one family.
C7_UniqueNames == \A l \in PackageLists : UniqueNames(l)

\* C8: additive_merged raises VersionConflict exactly when a shared family
\* has an empty intersection; otherwise its result names exactly the
\* families of the two lists, once each, a shared one with the intersection
\* of its two ranges and the others with their own range.
C8_AdditiveMerged ==
  op = "additive_merged" =>
    /\ result.err = "VersionConflict" <=> SharedConflict(self, rhs)
    /\ result.err = "none" =>
         /\ UniqueNames(result.pkgs)
         /\ Names(result.pkgs) = Names(self) \cup Names(rhs)
         /\ \A i \in DOMAIN result.pkgs :
              LET n == result.pkgs[i].name IN
                result.pkgs[i].range =
                  IF n \in Names(self) /\ n \in Names(rhs)
                    THEN RangeOf(self, n) \cap RangeOf(rhs, n)
                    ELSE IF n \in Names(self) THEN RangeOf(self, n) ELSE RangeOf(rhs, n)

\* C8's case: a family of each list alone and a shared one, narrowed.
C8_Witness ==
  /\ op = "additive_merged" /\ result.err = "none"
  /\ Names(self) = {"x", "y"} /\ Names(rhs) = {"y", "z"}
  /\ RangeOf(result.pkgs, "y") # RangeOf(self, "y")
  /\ RangeOf(result.pkgs, "y") # RangeOf(rhs, "y")

\* C9: merged raises VersionConflict exactly when a shared family has an
\* empty intersection; otherwise its result names exactly the families both
\* lists name, once each, with the intersection of the two ranges.
C9_Merged ==
  op = "merged" =>
    /\ result.err = "VersionConflict" <=> SharedConflict(self, rhs)
    /\ result.err = "none" =>
         /\ UniqueNames(result.pkgs)
         /\ Names(result.pkgs) = Names(self) \cap Names(rhs)
         /\ \A i \in DOMAIN result.pkgs :
              result.pkgs[i].range =
                RangeOf(self, result.pkgs[i].name) \cap RangeOf(rhs, result.pkgs[i].name)

\* C9's case: the shared family is kept, narrowed, and the two others go.
C9_Witness ==
  /\ op = "merged" /\ result.err = "none"
  /\ Names(self) = {"x", "y"} /\ Names(rhs) = {"y", "z"}
  /\ Names(result.pkgs) = {"y"}
  /\ RangeOf(result.pkgs, "y") # RangeOf(self, "y")
  /\ RangeOf(result.pkgs, "y") # RangeOf(rhs, "y")

\* C10: merged_into raises VersionConflict exactly when a shared family has
\* an empty intersection; otherwise its result has the families of self in
\* the order of self, one rhs also names with the intersection of the two
\* ranges and the others with the range self gives them.
C10_MergedInto ==
  op = "merged_into" =>
    /\ result.err = "VersionConflict" <=> SharedConflict(self, rhs)
    /\ result.err = "none" =>
         /\ Len(result.pkgs) = Len(self)
         /\ \A i \in DOMAIN self :
              /\ result.pkgs[i].name = self[i].name
              /\ result.pkgs[i].range =
                   IF self[i].name \in Names(rhs)
                     THEN self[i].range \cap RangeOf(rhs, self[i].name)
                     ELSE self[i].range

\* C10's case: self's own family passes through, the shared one is
\* narrowed, and the family of rhs alone is not added.
C10_Witness ==
  /\ op = "merged_into" /\ result.err = "none"
  /\ Names(self) = {"x", "y"} /\ Names(rhs) = {"y", "z"}
  /\ Names(result.pkgs) = {"x", "y"}
  /\ RangeOf(result.pkgs, "x") = RangeOf(self, "x")
  /\ RangeOf(result.pkgs, "y") # RangeOf(self, "y")

\* C11: add_constraint is idempotent: when a call with a request succeeded,
\* the next call with the same request succeeds too and leaves the list as
\* it was, name for name, in order, with the same ranges.
C11_AddConstraintIdempotent ==
  [][(op = "add_constraint" /\ result.err = "none" /\ op' = "add_constraint_again")
       => (result'.err = "none" /\ self' = self /\ result'.pkgs = self)]_vars

\* C11's case: the first call appended the request of a new family z, the
\* second call has returned.
C11_Witness ==
  /\ op = "add_constraint_again" /\ result.err = "none"
  /\ rhs.name = "z"
  /\ Len(self) = 3 /\ self[3] = rhs

\* Two requests of one family that no version satisfies both.
SameNameDisjoint(p, r) == p.name = r.name /\ p.range \cap r.range = {}

\* C12: has_conflicts_with is true exactly when an entry of self and an entry
\* of rhs have the same family and no common version; so an entry with the
\* range "any", or two entries of different families, make no conflict.
C12_HasConflictsWith ==
  op = "has_conflicts_with" =>
    result.conflict =
      (\E i \in DOMAIN self : \E j \in DOMAIN rhs : SameNameDisjoint(self[i], rhs[j]))

\* C12's case: the shared family y has overlapping ranges, while x and z
\* have disjoint ranges under different names: no conflict.
C12_Witness ==
  /\ op = "has_conflicts_with" /\ ~result.conflict
  /\ Names(self) = {"x", "y"} /\ Names(rhs) = {"y", "z"}
  /\ RangeOf(self, "x") \cap RangeOf(rhs, "z") = {}
  /\ RangeOf(self, "y") \cap RangeOf(rhs, "y") # {}
  /\ ~is_any(RangeOf(self, "y")) /\ ~is_any(RangeOf(rhs, "y"))

\* The requests of a recipe's variant, requires and build_requires.
OwnRequests(rec) ==
  { rec.variant[i] : i \in DOMAIN rec.variant }
  \cup { rec.requires[i] : i \in DOMAIN rec.requires }
  \cup { rec.build_requires[i] : i \in DOMAIN rec.build_requires }

\* C13: conflicts_with_package_list(L) is true exactly when
\* conflicts_with_package(p) is true for an entry p of L (never for an empty
\* L); and conflicts_with_package(p) is true exactly when p names the
\* recipe's family with a range that excludes its version, or a request of
\* its variant, requires or build_requires has no common version with p.
C13_ListAgreesWithPackage ==
  /\ op = "conflicts_with_package_list" =>
       result.conflict =
         (\E k \in DOMAIN rhs : conflicts_with_package(RECIPES["y"][1], rhs[k]))
  /\ op = "conflicts_with_package" =>
       result.conflict =
         (\/ SameNameDisjoint(RECIPES["y"][1].pkg, result.pkgs[1])
          \/ \E q \in OwnRequests(RECIPES["y"][1]) : SameNameDisjoint(q, result.pkgs[1]))

\* C13's case: only the recipe's own version conflicts, with the second
\* entry of the list.
C13_Witness ==
  /\ op = "conflicts_with_package_list" /\ result.conflict
  /\ Len(rhs) = 2 /\ rhs[2].name = "y"
  /\ ~conflicts_with_package(RECIPES["y"][1], rhs[1])
  /\ \A q \in OwnRequests(RECIPES["y"][1]) : \A k \in DOMAIN rhs :
       ~SameNameDisjoint(q, rhs[k])

RECURSIVE Resolvable(_, _, _)
\* A recipe is acceptable against constraints: it does not conflict with
\* them, and for each of its requirements (build_requires merged with
\* requires) some recipe of the catalog that matches the requirement is
\* acceptable in turn.  k bounds the descent.
Resolvable(rec, constraints, k) ==
  /\ k > 0
  /\ ~conflicts_with_package_list(rec, constraints)
  /\ LET m == additive_merged(rec.build_requires, rec.requires) IN
       /\ m.err = "none"
       /\ \A i \in DOMAIN m.pkgs :
            \E cand \in RecipesOf(m.pkgs[i].name) :
              /\ ~conflicts_with(cand.pkg, m.pkgs[i])
              /\ Resolvable(cand, constraints, k - 1)

\* C14 (as claimed): a recipe that has_dependency_conflict accepts, as
\* every recipe find_recipe returns is, does not conflict with the
\* constraints and has for every one of its requirements an acceptable
\* candidate.
C14_AcceptedOnlyIfResolvable ==
  (pc = "constraints" /\ Acyclic) =>
    \A i \in DOMAIN available_recipes :
      Resolvable(available_recipes[i], requested_variant, Cardinality(DOMAIN RECIPES) + 1)

\* The failures of a resolution.
ResolutionErrors == {RecipeNotFound, DependencyConflict, "VersionConflict"}

\* C15 (as claimed): a failure inside the recursion into one candidate does
\* not end the resolution while another candidate survives: when a asks
\* only for c, and some recipe of c in the range a asks for has no
\* requirements of its own, resolving a does not fail.
C15_NextCandidateTried ==
  (/\ pc = "done"
   /\ NoConstrain
   /\ pkg_req.name = "a"
   /\ Names(Asked(RECIPES["a"][1])) = {"c"}
   /\ \E cand \in RecipesOf("c") :
        cand.pkg.range \subseteq AskedRange(RECIPES["a"][1], "c") /\ Asked(cand) = <<>>)
  => outcome.err \notin ResolutionErrors

\* The recipes a tree selects: its top-level recipe and the first recipe of
\* every name of its map.
TreeSelected(t) ==
  {trees[t].toplevel}
  \cup { trees[t].deps[k].recs[1] : k \in DOMAIN trees[t].deps }

\* The versions of a family that the initial constraints and the selected
\* recipes of a tree all admit.
Explained(t, name) ==
  { v \in Versions :
      /\ \A j \in DOMAIN requested_constraints :
           requested_constraints[j].name = name => v \in requested_constraints[j].range
      /\ \A sel \in TreeSelected(t) : v \in AskedRange(sel, name) }

\* C16 (as claimed): once a tree is resolved, every entry of its accumulator
\* is named by the initial constraints or asked for by a selected recipe,
\* and is no narrower than the initial constraints and the selected recipes
\* make it.
C16_NarrowingFromSelected ==
  TreesBuilt =>
    \A t \in DOMAIN trees : \A i \in DOMAIN trees[t].constraints :
      LET e == trees[t].constraints[i] IN
        /\ \/ e.name \in Names(requested_constraints)
           \/ \E sel \in TreeSelected(t) : e.name \in Names(Asked(sel))
        /\ Explained(t, e.name) \subseteq e.range

\* No request of the constraints excludes the recipe's own version or has no
\* common version with a same-named request of its variant, requires or
\* build_requires.
CompatibleWith(rec, constraints) ==
  \A j \in DOMAIN constraints :
    /\ ~SameNameDisjoint(rec.pkg, constraints[j])
    /\ \A q \in OwnRequests(rec) : ~SameNameDisjoint(q, constraints[j])

\* C17: every recipe of the map build_dependency_tree returned is compatible
\* with the constraints the resolution was started with.
C17_MapCompatibleWithInitial ==
  TreesBuilt =>
    \A t \in DOMAIN trees : \A k \in DOMAIN trees[t].deps :
      \A i \in DOMAIN trees[t].deps[k].recs :
        CompatibleWith(trees[t].deps[k].recs[i], requested_constraints)

\* C17's case: the run was constrained to a version of c, the catalog has
\* another version of c that the top-level recipe would accept, and the map
\* has c.
C17_Witness ==
  /\ TreesBuilt
  /\ \E j \in DOMAIN requested_constraints :
       /\ requested_constraints[j].name = "c"
       /\ \E rec \in RecipesOf("c") :
            /\ rec.pkg.range \cap requested_constraints[j].range = {}
            /\ rec.pkg.range \subseteq AskedRange(trees[1].toplevel, "c")
  /\ "c" \in Names(Asked(trees[1].toplevel))
  /\ "c" \in DepNames(trees[1].deps)

\* C18: the map of every tree gives each of its names a non-empty list of
\* recipes of that family and has a key for every family the top-level
\* recipe asks for; the split finds a first recipe for every name of the
\* first tree.
C18_MapWellFormed ==
  /\ TreesBuilt =>
       \A t \in DOMAIN trees :
         /\ \A k \in DOMAIN trees[t].deps :
              /\ trees[t].deps[k].recs # <<>>
              /\ \A i \in DOMAIN trees[t].deps[k].recs :
                   trees[t].deps[k].recs[i].pkg.name = trees[t].deps[k].name
         /\ Names(Asked(trees[t].toplevel)) \subseteq DepNames(trees[t].deps)
  /\ SplitDone =>
       \A k \in DOMAIN trees[1].deps : InSeq(trees[1].deps[k].recs[1], Selection)

\* C18's case: a map of three names, one of them with two recipes, has been
\* split.
C18_Witness ==
  /\ SplitDone
  /\ Len(trees[1].deps) >= 3
  /\ \E k \in DOMAIN trees[1].deps : Len(trees[1].deps[k].recs) >= 2

\* The list later holds every family of the list earlier, and holds for a
\* family no version that earlier did not.
Narrows(earlier, later) ==
  /\ Names(earlier) \subseteq Names(later)
  /\ \A i \in DOMAIN earlier : \A j \in DOMAIN later :
       later[j].name = earlier[i].name => later[j].range \subseteq earlier[i].range

\* The histories of the accumulators of the run: of the constraints lists
\* the walk resolved on and of the constraints list of every tree, also of a
\* resolution that raised.
Histories ==
  { walks[w] : w \in DOMAIN walks } \cup { trees[t].history : t \in DOMAIN trees }

\* C19: the accumulator only narrows.  In the history of every accumulator
\* (what it held at its copy, after every add_constraint of every fold at
\* every depth, and after every has_dependency_conflict it was passed to),
\* each later entry holds every family of each earlier entry with a range
\* inside the earlier one, the first entry being the initial constraints;
\* a call of has_dependency_conflict leaves the accumulator as it was; and
\* the resolved constraints narrow the requested variant.
C19_AccumulatorNarrows ==
  /\ pc \in {"trees", "split", "variants", "cook"} =>
       Narrows(requested_variant, requested_constraints)
  /\ \A h \in Histories :
       /\ h[1].by = "deepcopy"
       /\ h[1].pkgs \in {requested_variant, requested_constraints}
       /\ \A i \in DOMAIN h : \A j \in DOMAIN h :
            i < j => Narrows(h[i].pkgs, h[j].pkgs)
       /\ \A i \in DOMAIN h :
            h[i].by = "has_dependency_conflict" => h[i].pkgs = h[i - 1].pkgs
  /\ \A t \in DOMAIN trees :
       /\ trees[t].history[1].pkgs = requested_constraints
       /\ trees[t].history[Len(trees[t].history)].pkgs = trees[t].constraints

\* C19's case: the diamond.  The top-level recipe does not ask for c; a
\* nested fold adds c to the accumulator, has_dependency_conflict is then
\* called with the accumulator, and a later fold narrows c further.
C19_Witness ==
  /\ TreesBuilt
  /\ "c" \notin Names(requested_constraints)
  /\ "c" \notin Names(Asked(trees[1].toplevel))
  /\ \E i, j, k \in DOMAIN trees[1].history :
       LET h == trees[1].history IN
         /\ i < j /\ j < k
         /\ h[i].by = "add_constraint"
         /\ "c" \notin Names(h[i - 1].pkgs) /\ "c" \in Names(h[i].pkgs)
         /\ h[j].by = "has_dependency_conflict"
         /\ h[k].by = "add_constraint"
         /\ RangeOf(h[k].pkgs, "c") # RangeOf(h[i].pkgs, "c")

\* The fold build_dependency_tree starts with (lines 118-124): the merge of
\* the recipe's three lists and add_constraint of every merged entry.
FoldOf(rec, constraints) ==
  LET m == merged_requires_of(rec)
  IN IF m.err # "none" THEN m
     ELSE fold_constraints(constraints, m.pkgs, 1, Copied(constraints))

AllRecipes == UNION { RecipesOf(n) : n \in DOMAIN RECIPES }

\* C20 (as claimed): for a recipe that has_dependency_conflict reports
\* conflict-free against the accumulator (here the resolved constraints, the
\* accumulator the trees start with), the fold does not raise
\* VersionConflict.
C20_FoldAfterCheckNeverRaises ==
  pc = "trees" =>
    \A rec \in AllRecipes :
      LET h == has_dependency_conflict(rec, requested_constraints, RECIPES, <<>>, 1)
      IN (h.err = "none" /\ ~h.conflict) =>
           FoldOf(rec, requested_constraints).err # "VersionConflict"

====
